---- MODULE Spec2Model ----
(***************************************************************************)
(* The free-tier quota (useFreeTier), the unauthenticated view router      *)
(* (App.renderCurrentView) and the generation handler                      *)
(* (FreeGenerateScreen.handleGenerate) of the curated-prompt variant of    *)
(* the client, src/unnamed/part_003.                                       *)
(*                                                                         *)
(* React specifics that the model keeps:                                   *)
(*  - a component's state lives as long as the component is mounted; the   *)
(*    state of FreeGenerateScreen is created afresh each time the router   *)
(*    renders it again;                                                    *)
(*  - an async handler keeps the values of the render it was started in:   *)
(*    the freeTier object a pending handleGenerate holds carries the       *)
(*    usageCount of that render (field count of a request);                *)
(*  - a state setter called on an unmounted component has no effect        *)
(*    (field live of a request).                                           *)
(***************************************************************************)
EXTENDS Integers, Sequences, FiniteSets

\* ---------------------------------------------------------------- bounds
\* The free-generation limit.  The source sets 100 (part_003:194; 5 in the
\* older variant, part_001:2162); every guard only compares usageCount with
\* it, so the model takes a small limit.
FREE_LIMIT == 2
\* Generation requests sent over one behaviour.
MaxSent == 3
\* Generation requests pending at the same time.
MaxInFlight == 2
\* App launches in one behaviour.
MaxSessions == 3
\* toggleTheme and setTheme calls of a behaviour
MaxThemeCalls == 3
\* Images of the gallery.
MaxImages == 3
\* The window's width, in units of a scroll offset.
ScreenWidth == 4

\* ------------------------------------------------- JavaScript values
\* NaN, the result of parseInt on a string with no leading digits; a value
\* outside the counters' range, handled by the Js* operators below.
NaN == 0 - 1
\* getItem's result: null for a missing key, else the stored string (a
\* sequence of characters).
NoItem == [has |-> FALSE, str |-> <<>>]
Item(s) == [has |-> TRUE, str |-> s]
\* No setItem has succeeded yet (history only).
NotWritten == [value |-> 0, session |-> 0]
NoUser == "null"
\* handleSignIn has not been called (history only).
NotSubmitted == [email |-> "null", password |-> "null"]
NoImage == "null"
NoPrompt == 0
NoAlert == [title |-> "none", message |-> "none"]

DigitChars == <<"0", "1", "2", "3", "4", "5", "6", "7", "8", "9">>

IsDigit(c) == \E i \in 1..10 : DigitChars[i] = c

DigitVal(c) == (CHOOSE i \in 1..10 : DigitChars[i] = c) - 1

RECURSIVE NatToString(_)
NatToString(n) ==
  IF n < 10 THEN <<DigitChars[n + 1]>>
  ELSE NatToString(n \div 10) \o <<DigitChars[(n % 10) + 1]>>

\* Number.prototype.toString for the values a counter takes.
ToString(n) == IF n = NaN THEN <<"N", "a", "N">> ELSE NatToString(n)

RECURSIVE SkipSpaces(_)
SkipSpaces(s) ==
  IF s # <<>> /\ Head(s) = " " THEN SkipSpaces(Tail(s)) ELSE s

RECURSIVE LeadingDigits(_)
LeadingDigits(s) ==
  IF s # <<>> /\ IsDigit(Head(s)) THEN <<Head(s)>> \o LeadingDigits(Tail(s))
  ELSE <<>>

RECURSIVE DigitsValue(_, _)
DigitsValue(s, acc) ==
  IF s = <<>> THEN acc ELSE DigitsValue(Tail(s), acc * 10 + DigitVal(Head(s)))

\* parseInt(string) with no radix, for decimal input: leading white space is
\* skipped, the longest prefix of digits is converted, NaN when there is none.
ParseInt(s) ==
  LET t == SkipSpaces(s)
      d == LeadingDigits(t)
  IN IF d = <<>> THEN NaN ELSE DigitsValue(d, 0)

\* a + b, a - b, a < b and Math.max(a, b) on numbers that may be NaN.
JsAdd(a, b) == IF a = NaN \/ b = NaN THEN NaN ELSE a + b
JsSub(a, b) == IF a = NaN \/ b = NaN THEN NaN ELSE a - b
JsLt(a, b) == a # NaN /\ b # NaN /\ a < b
JsMax(a, b) == IF a = NaN \/ b = NaN THEN NaN ELSE IF a < b THEN b ELSE a

\* `stored ? ... : ...`: null and the empty string are falsy.
Truthy(it) == it.has /\ it.str # <<>>

\* ------------------------------------------------------------ inputs
PromptIds == {1}
Images == {"img"}
\* What the device's storage may hold under free_usage_count at launch.
InitialStored ==
  {NoItem, Item(<<>>), Item(<<"x">>), Item(ToString(1)),
   Item(ToString(FREE_LIMIT + 10))}

VARIABLES
  hasLocalStorage,  \* typeof localStorage !== 'undefined'
  stored,           \* localStorage['free_usage_count']
  usageCount,       \* useFreeTier: usageCount
  isLoading,        \* useFreeTier: isLoading
  user,             \* useAuth: user
  loading,          \* useAuth: loading
  signInTimer,      \* useAuth.signIn: the pending setTimeout (its email)
  submitted,        \* history: the fields of the latest handleSignIn call
  homeView,         \* HomeScreen: currentView
  appState,         \* App: appState
  selectedPromptId, \* FreeGenerateScreen state
  referenceImage,
  generating,
  generatedImage,
  activeTab,
  requests,         \* pending handleGenerate calls, awaiting the network
  alert,            \* the Alert.alert call of the last step, if any
  last,             \* the operation that made the last step
  sent,             \* history: generation requests sent
  overlapped,       \* history: a request was sent while another was pending
  successes,        \* history: generation requests completed successfully
  incCalls,         \* history: incrementUsage calls in this session
  loaded,           \* history: usageCount as loaded at this session's start
  lastWritten,      \* history: value and session of the last successful setItem
  lastWriteFailed,  \* history: the latest incrementUsage could not persist
  storedAtStart,    \* history: storage at the first launch
  session,          \* history: number of launches
  variant,          \* which useFreeTier/FreeGenerateScreen pair is built
  theme,            \* ThemeProvider: state, storage key and pending calls
  viewer            \* PhotoViewerModal: props, currentIndex, scroll offset

vars == <<hasLocalStorage, stored, usageCount, isLoading, user, loading,
          signInTimer, submitted, homeView, appState, selectedPromptId, referenceImage,
          generating, generatedImage, activeTab, requests, alert, last, sent,
          overlapped,
          successes, incCalls, loaded, lastWritten, lastWriteFailed,
          storedAtStart, session, variant, theme, viewer>>

\* What the actions of the generation flow never touch.
sideVars == <<variant, theme, viewer>>
envVars == <<hasLocalStorage, storedAtStart, session, sideVars>>
authVars == <<user, loading, signInTimer, submitted, homeView>>
screenVars == <<selectedPromptId, referenceImage, generating, generatedImage,
                activeTab>>
quotaVars == <<stored, usageCount, isLoading, incCalls, loaded, lastWritten,
               lastWriteFailed>>

\* ThemeProvider at mount, with s under the key theme_mode: the light theme,
\* loadThemePreference pending.  failed, calls, streak and base are history:
\* a getItem or setItem has rejected; toggleTheme/setTheme calls so far;
\* toggleTheme calls in a row, and the mode and the stored value (pending
\* writes counted as landed) before the first of them.
ThemeAtMount(s) ==
  [currentTheme |-> "light", isDarkMode |-> FALSE, stored |-> s,
   load |-> "pending", read |-> "null", writes |-> <<>>, failed |-> FALSE,
   calls |-> 0, streak |-> 0, base |-> [isDarkMode |-> FALSE, stored |-> s]]

\* ThemeProvider after its load, nothing stored, nothing pending.
ThemeIdle == [ThemeAtMount("null") EXCEPT !.load = "done"]

\* PhotoViewerModal not shown.
ViewerClosed ==
  [visible |-> FALSE, length |-> 0, initialIndex |-> 0, currentIndex |-> 0,
   offsetX |-> 0, moved |-> FALSE]

\* ------------------------------------------------------ useFreeTier
\* (variant: the difference without Math.max)
getRemainingUses_NoFloor(u) == JsSub(FREE_LIMIT, u)

getRemainingUses(u) == JsMax(0, JsSub(FREE_LIMIT, u))

hasUsesLeft(u) == JsLt(u, FREE_LIMIT)

\* ------------------------------------------------------ rendering
\* App: the loading view replaces everything while loading || isLoading.
ShowsLoading == loading \/ isLoading

\* The builds of the repository: the curated-prompt one, whose hook returns
\* hasUsesLeft itself, and the free-text one with limit 5, whose hook
\* returns hasUsesLeft() (a boolean).
Variants == {"curated", "basic"}

HasUsesLeftCallable == variant # "basic"

\* FreeGenerateScreen calls freeTier.hasUsesLeft() while rendering its
\* generate control: a TypeError when it is not a function.
RenderThrows ==
  /\ ~ShowsLoading
  /\ user = NoUser
  /\ appState = "generate"
  /\ ~HasUsesLeftCallable

\* (variant: the switch on appState is not preceded by the user check)
CurrentView_RouterOnly ==
  IF ShowsLoading THEN "loading"
  ELSE IF appState \in {"welcome", "generate", "signup_prompt", "auth"}
       THEN appState
  ELSE "welcome"

\* renderCurrentView: which screen is displayed.
CurrentView ==
  IF ShowsLoading THEN "loading"
  ELSE IF user # NoUser THEN "home"
  ELSE IF RenderThrows THEN "error"
  ELSE IF appState \in {"welcome", "generate", "signup_prompt", "auth"}
       THEN appState
  ELSE "welcome"

GenerateMounted == CurrentView = "generate"

\* FreeGenerateScreen's state at mount (useState initial values).
MountScreen ==
  /\ selectedPromptId' = NoPrompt
  /\ referenceImage' = NoImage
  /\ generating' = FALSE
  /\ generatedImage' = NoImage
  /\ activeTab' = "generate"

\* The screen leaves the tree: its pending handlers go on, detached.
Detach(reqs) == [i \in 1..Len(reqs) |-> [reqs[i] EXCEPT !.live = FALSE]]

RemoveAt(s, i) == [j \in 1..(Len(s) - 1) |-> IF j < i THEN s[j] ELSE s[j + 1]]

InitFlow ==
  /\ hasLocalStorage \in BOOLEAN
  /\ stored \in (IF hasLocalStorage THEN InitialStored ELSE {NoItem})
  /\ usageCount = 0
  /\ isLoading = TRUE
  /\ user = NoUser
  /\ loading = FALSE
  /\ signInTimer = NoUser
  /\ submitted = NotSubmitted
  /\ homeView = "home"
  /\ appState = "welcome"
  /\ selectedPromptId = NoPrompt
  /\ referenceImage = NoImage
  /\ generating = FALSE
  /\ generatedImage = NoImage
  /\ activeTab = "generate"
  /\ requests = <<>>
  /\ alert = NoAlert
  /\ last = "launch"
  /\ sent = 0
  /\ overlapped = FALSE
  /\ successes = 0
  /\ incCalls = 0
  /\ loaded = 0
  /\ lastWritten = NotWritten
  /\ lastWriteFailed = FALSE
  /\ storedAtStart = stored
  /\ session = 1

\* The curated-prompt build, its theme and photo viewer left aside.
Init ==
  /\ InitFlow
  /\ variant = "curated"
  /\ theme = ThemeIdle
  /\ viewer = ViewerClosed

\* useFreeTier's mount effect, loadUsage.  getItem may throw (readOk false):
\* the catch logs, usageCount keeps its initial 0.
loadUsage ==
  /\ isLoading
  /\ \E readOk \in BOOLEAN :
       /\ usageCount' =
            IF hasLocalStorage /\ readOk
            THEN (IF Truthy(stored) THEN ParseInt(stored.str) ELSE 0)
            ELSE usageCount
       /\ last' = (IF hasLocalStorage /\ readOk THEN "loadUsage"
                   ELSE "loadUsageNoRead")
  /\ loaded' = usageCount'
  /\ isLoading' = FALSE
  /\ alert' = NoAlert
  /\ UNCHANGED <<envVars, authVars, screenVars, stored, appState, requests,
                 sent, overlapped, successes, incCalls, lastWritten,
                 lastWriteFailed>>


\* (variant: the value before the increment is the one persisted)
incrementUsage_StoresOld(count, writeOk) ==
  LET newCount == JsAdd(count, 1)
  IN /\ usageCount' = newCount
     /\ IF hasLocalStorage /\ writeOk
        THEN /\ stored' = Item(ToString(count))
             /\ lastWritten' = [value |-> newCount, session |-> session]
        ELSE UNCHANGED <<stored, lastWritten>>
     /\ lastWriteFailed' = (hasLocalStorage /\ ~writeOk)
     /\ incCalls' = incCalls + 1

\* useFreeTier.incrementUsage as called through a freeTier object whose
\* render saw usageCount = count.  setItem may throw (writeOk false): the
\* catch logs and the call still returns newCount.
incrementUsage(count, writeOk) ==
  LET newCount == JsAdd(count, 1)
  IN /\ usageCount' = newCount
     /\ IF hasLocalStorage /\ writeOk
        THEN /\ stored' = Item(ToString(newCount))
             /\ lastWritten' = [value |-> newCount, session |-> session]
        ELSE UNCHANGED <<stored, lastWritten>>
     /\ lastWriteFailed' = (hasLocalStorage /\ ~writeOk)
     /\ incCalls' = incCalls + 1

\* ------------------------------------------------------------ router
\* (variant: Get Started opens the sign-in form)
GetStarted_ToAuth ==
  /\ CurrentView = "welcome"
  /\ appState' = "auth"
  /\ MountScreen
  /\ last' = "getStarted"
  /\ alert' = NoAlert
  /\ UNCHANGED <<envVars, authVars, quotaVars, requests, sent, overlapped,
                 successes>>

\* WelcomeScreen: Get Started.
GetStarted ==
  /\ CurrentView = "welcome"
  /\ appState' = "generate"
  /\ MountScreen
  /\ last' = "getStarted"
  /\ alert' = NoAlert
  /\ UNCHANGED <<envVars, authVars, quotaVars, requests, sent, overlapped, successes>>

\* FreeGenerateScreen: the header's back arrow (form view only).
Back ==
  /\ GenerateMounted
  /\ generatedImage = NoImage
  /\ appState' = "welcome"
  /\ MountScreen
  /\ requests' = Detach(requests)
  /\ last' = "back"
  /\ alert' = NoAlert
  /\ UNCHANGED <<envVars, authVars, quotaVars, sent, overlapped, successes>>

\* ---------------------------------------------- FreeGenerateScreen
\* A prompt card is pressed.
SelectPrompt ==
  /\ GenerateMounted
  /\ generatedImage = NoImage
  /\ activeTab = "generate"
  /\ \E p \in PromptIds : selectedPromptId' = p
  /\ last' = "selectPrompt"
  /\ alert' = NoAlert
  /\ UNCHANGED <<envVars, authVars, quotaVars, appState, referenceImage,
                 generating, generatedImage, requests, sent, overlapped, successes,
                 activeTab>>

\* (variant: the denied branch alerts and goes on to the picker)
PickReferenceImage_IgnoresDenial ==
  /\ GenerateMounted
  /\ generatedImage = NoImage
  /\ activeTab = "generate"
  /\ referenceImage = NoImage
  /\ \E outcome \in {"denied", "canceled", "error", "picked"} :
       /\ referenceImage' =
            IF outcome \in {"picked", "denied"}
            THEN CHOOSE im \in Images : TRUE
            ELSE referenceImage
       /\ alert' =
            CASE outcome = "denied" ->
                   [title |-> "Permission Required", message |-> "permission"]
              [] outcome = "error" ->
                   [title |-> "Error", message |-> "Failed to select image"]
              [] OTHER -> NoAlert
       /\ last' = (IF outcome = "denied" THEN "pickDenied" ELSE "pick")
  /\ UNCHANGED <<envVars, authVars, quotaVars, appState, selectedPromptId,
                 generating, generatedImage, requests, sent, overlapped,
                 successes,
                 activeTab>>

\* pickReferenceImage / takeReferencePhoto: permission denied, picker
\* cancelled, picker failed, or an image chosen.
PickReferenceImage ==
  /\ GenerateMounted
  /\ generatedImage = NoImage
  /\ activeTab = "generate"
  /\ referenceImage = NoImage
  /\ \E outcome \in {"denied", "canceled", "error", "picked"} :
       /\ referenceImage' =
            IF outcome = "picked" THEN CHOOSE im \in Images : TRUE
            ELSE referenceImage
       /\ alert' =
            CASE outcome = "denied" ->
                   [title |-> "Permission Required", message |-> "permission"]
              [] outcome = "error" ->
                   [title |-> "Error", message |-> "Failed to select image"]
              [] OTHER -> NoAlert
       /\ last' = (IF outcome = "denied" THEN "pickDenied" ELSE "pick")
  /\ UNCHANGED <<envVars, authVars, quotaVars, appState, selectedPromptId,
                 generating, generatedImage, requests, sent, overlapped, successes,
                 activeTab>>

\* removeReferenceImage, confirmed with Remove.
RemoveReferenceImage ==
  /\ GenerateMounted
  /\ generatedImage = NoImage
  /\ activeTab = "generate"
  /\ referenceImage # NoImage
  /\ referenceImage' = NoImage
  /\ last' = "removeImage"
  /\ alert' = NoAlert
  /\ UNCHANGED <<envVars, authVars, quotaVars, appState, selectedPromptId,
                 generating, generatedImage, requests, sent, overlapped, successes,
                 activeTab>>

\* The tab bar of the form view: setActiveTab.
Tabs == {"generate", "gallery", "profile"}

\* (variant: leaving the generate tab resets the form's progress state)
SetActiveTab_ClearsGenerating ==
  /\ GenerateMounted
  /\ generatedImage = NoImage
  /\ \E t \in Tabs \ {activeTab} : activeTab' = t
  /\ generating' = FALSE
  /\ last' = "setActiveTab"
  /\ alert' = NoAlert
  /\ UNCHANGED <<envVars, authVars, quotaVars, appState, selectedPromptId,
                 referenceImage, generatedImage, requests, sent, overlapped,
                 successes>>

SetActiveTab ==
  /\ GenerateMounted
  /\ generatedImage = NoImage
  /\ \E t \in Tabs \ {activeTab} : activeTab' = t
  /\ last' = "setActiveTab"
  /\ alert' = NoAlert
  /\ UNCHANGED <<envVars, authVars, quotaVars, appState, selectedPromptId,
                 referenceImage, generating, generatedImage, requests, sent,
                 overlapped, successes>>

\* Result view: back arrow / Generate Another.
ResetResult ==
  /\ GenerateMounted
  /\ generatedImage # NoImage
  /\ generatedImage' = NoImage
  /\ selectedPromptId' = NoPrompt
  /\ referenceImage' = NoImage
  /\ last' = "resetResult"
  /\ alert' = NoAlert
  /\ UNCHANGED <<envVars, authVars, quotaVars, appState, generating, requests,
                 sent, overlapped, successes,
                 activeTab>>

\* (variant: the reference-image check is missing)
GenerateOutcome_NoImageCheck ==
  IF selectedPromptId = NoPrompt THEN "generateNoPrompt"
  ELSE IF ~hasUsesLeft(usageCount) THEN "generateNoUses"
  ELSE "generateSent"

\* handleGenerate's early returns, in the order of the code: which way a
\* call goes.
GenerateOutcome ==
  IF selectedPromptId = NoPrompt THEN "generateNoPrompt"
  ELSE IF referenceImage = NoImage THEN "generateNoImage"
  ELSE IF ~hasUsesLeft(usageCount) THEN "generateNoUses"
  ELSE "generateSent"

\* handleGenerate up to its first await (the fetch).  curatedPrompts.find
\* always finds the prompt: the selection comes from that list.
handleGenerate ==
  /\ GenerateMounted
  /\ last' = GenerateOutcome
  /\ CASE GenerateOutcome = "generateNoPrompt" ->
            /\ alert' = [title |-> "Error", message |-> "select prompt"]
            /\ UNCHANGED <<appState, screenVars, requests, sent, overlapped>>
       [] GenerateOutcome = "generateNoImage" ->
            /\ alert' = [title |-> "Error", message |-> "add reference"]
            /\ UNCHANGED <<appState, screenVars, requests, sent, overlapped>>
       [] GenerateOutcome = "generateNoUses" ->
            \* onSignupPrompt(): the generate screen leaves the tree
            /\ appState' = "signup_prompt"
            /\ MountScreen
            /\ requests' = Detach(requests)
            /\ alert' = NoAlert
            /\ UNCHANGED <<sent, overlapped>>
       [] OTHER ->
            /\ sent < MaxSent
            /\ Len(requests) < MaxInFlight
            /\ generating' = TRUE
            /\ requests' = Append(requests,
                 [count |-> usageCount, live |-> TRUE, stage |-> "fetch",
                  ok |-> FALSE, detail |-> FALSE])
            /\ sent' = sent + 1
            /\ overlapped' = (overlapped \/ requests # <<>>)
            /\ alert' = NoAlert
            /\ UNCHANGED <<appState, selectedPromptId, referenceImage,
                           generatedImage, activeTab>>
  /\ UNCHANGED <<envVars, authVars, quotaVars, successes>>

\* The generate control's disabled prop.
GenerateDisabled ==
  \/ ~hasUsesLeft(usageCount)
  \/ generating
  \/ selectedPromptId = NoPrompt
  \/ referenceImage = NoImage

\* The user taps the generate control: a disabled control ignores the tap.
TapGenerate ==
  /\ GenerateMounted
  /\ generatedImage = NoImage
  /\ activeTab = "generate"
  /\ IF GenerateDisabled
     THEN /\ last' = "tapDisabled"
          /\ alert' = NoAlert
          /\ UNCHANGED <<envVars, authVars, quotaVars, screenVars, appState,
                         requests, sent, overlapped, successes>>
     ELSE handleGenerate

\* handleGenerate called whatever the control's disabled prop.
CallHandleGenerate == handleGenerate

\* The fetch resolves with a response (ok: status 2xx; detail: a non-2xx
\* response whose body carries a detail).
FetchResolves ==
  /\ \E i \in 1..Len(requests) : \E ok, detail \in BOOLEAN :
       /\ requests[i].stage = "fetch"
       /\ ok => ~detail
       /\ requests' = [requests EXCEPT ![i].stage = "body", ![i].ok = ok,
                                       ![i].detail = detail]
  /\ last' = "fetchResolves"
  /\ alert' = NoAlert
  /\ UNCHANGED <<envVars, authVars, quotaVars, screenVars, appState, sent, overlapped,
                 successes>>

\* (variant: the catch block counts the attempt)
GenerationFails_Counting(i, message) ==
  /\ alert' = [title |-> "Generation Failed", message |-> message]
  /\ generating' = (IF requests[i].live THEN FALSE ELSE generating)
  /\ requests' = RemoveAt(requests, i)
  /\ incrementUsage(requests[i].count, TRUE)
  /\ last' = "generationFailed"
  /\ UNCHANGED <<envVars, authVars, isLoading, loaded, appState,
                 selectedPromptId, referenceImage, generatedImage, sent, overlapped,
                 successes,
                 activeTab>>

\* handleGenerate's catch and finally for request i.
GenerationFails(i, message) ==
  /\ alert' = [title |-> "Generation Failed", message |-> message]
  /\ generating' = (IF requests[i].live THEN FALSE ELSE generating)
  /\ requests' = RemoveAt(requests, i)
  /\ last' = "generationFailed"
  /\ UNCHANGED <<envVars, authVars, quotaVars, appState, selectedPromptId,
                 referenceImage, generatedImage, sent, overlapped, successes,
                 activeTab>>

\* (variant: a transport error is answered by sending the request again)
FetchRejects_Retries ==
  /\ \E i \in 1..Len(requests) : requests[i].stage = "fetch"
  /\ sent < MaxSent
  /\ sent' = sent + 1
  /\ last' = "fetchRetried"
  /\ alert' = NoAlert
  /\ UNCHANGED <<envVars, authVars, quotaVars, screenVars, appState,
                 requests, overlapped, successes>>

\* The fetch rejects (transport error).
FetchRejects ==
  \E i \in 1..Len(requests) :
    /\ requests[i].stage = "fetch"
    /\ GenerationFails(i, "error.message")

\* (variant: the thrown message never takes the detail)
ErrorBodySettles_IgnoresDetail ==
  \E i \in 1..Len(requests) :
    /\ requests[i].stage = "body"
    /\ ~requests[i].ok
    /\ GenerationFails(i, "HTTP status")

\* response.json() settles on a non-2xx response: the detail of the error
\* body, or the HTTP fallback when there is none or the body does not parse.
ErrorBodySettles ==
  \E i \in 1..Len(requests) :
    /\ requests[i].stage = "body"
    /\ ~requests[i].ok
    /\ GenerationFails(i, IF requests[i].detail THEN "detail"
                          ELSE "HTTP status")

\* response.json() rejects on a 2xx response.
BodyRejects ==
  \E i \in 1..Len(requests) :
    /\ requests[i].stage = "body"
    /\ requests[i].ok
    /\ GenerationFails(i, "error.message")

\* (variant: the success path does not call incrementUsage)
GenerationCompletes_NoIncrement(i, writeOk) ==
  /\ generatedImage' =
       (IF requests[i].live THEN "generated" ELSE generatedImage)
  /\ alert' = [title |-> "Success!", message |-> "remaining"]
  /\ generating' = (IF requests[i].live THEN FALSE ELSE generating)
  /\ requests' = RemoveAt(requests, i)
  /\ successes' = successes + 1
  /\ last' = "generationSucceeded"
  /\ UNCHANGED <<envVars, authVars, quotaVars, appState, selectedPromptId,
                 referenceImage, sent, overlapped,
                 activeTab>>

\* The rest of handleGenerate's try block and the finally for request i,
\* once response.json() has resolved on a 2xx response.
GenerationCompletes(i, writeOk) ==
  /\ generatedImage' =
       (IF requests[i].live THEN "generated" ELSE generatedImage)
  /\ incrementUsage(requests[i].count, writeOk)
  /\ alert' = [title |-> "Success!", message |-> "remaining"]
  /\ generating' = (IF requests[i].live THEN FALSE ELSE generating)
  /\ requests' = RemoveAt(requests, i)
  /\ successes' = successes + 1
  /\ last' = "generationSucceeded"
  /\ UNCHANGED <<envVars, authVars, isLoading, loaded, appState,
                 selectedPromptId, referenceImage, sent, overlapped,
                 activeTab>>

\* response.json() resolves on a 2xx response.
GenerationSucceeds ==
  \E i \in 1..Len(requests) : \E writeOk \in BOOLEAN :
    /\ requests[i].stage = "body"
    /\ requests[i].ok
    /\ GenerationCompletes(i, writeOk)

\* ------------------------------------------- signup_prompt, auth, home
\* (variant: handleSignup sets the tag of the comment on appState)
Signup_Authenticated ==
  /\ CurrentView = "signup_prompt"
  /\ appState' = "authenticated"
  /\ last' = "signup"
  /\ alert' = NoAlert
  /\ UNCHANGED <<envVars, authVars, quotaVars, screenVars, requests, sent,
                 overlapped, successes>>

\* SignupPromptScreen: Create Account (handleSignup).
Signup ==
  /\ CurrentView = "signup_prompt"
  /\ appState' = "auth"
  /\ last' = "signup"
  /\ alert' = NoAlert
  /\ UNCHANGED <<envVars, authVars, quotaVars, screenVars, requests, sent, overlapped,
                 successes>>

\* (variant: Continue with free tier starts the flow over)
SignupBack_ToWelcome ==
  /\ CurrentView = "signup_prompt"
  /\ appState' = "welcome"
  /\ MountScreen
  /\ last' = "signupBack"
  /\ alert' = NoAlert
  /\ UNCHANGED <<envVars, authVars, quotaVars, requests, sent, overlapped,
                 successes>>

\* SignupPromptScreen: Continue with free tier (onBack).
SignupBack ==
  /\ CurrentView = "signup_prompt"
  /\ appState' = "generate"
  /\ MountScreen
  /\ last' = "signupBack"
  /\ alert' = NoAlert
  /\ UNCHANGED <<envVars, authVars, quotaVars, requests, sent, overlapped, successes>>

\* AuthScreen: the header's back arrow (onBack).
AuthBack ==
  /\ CurrentView = "auth"
  /\ appState' = "generate"
  /\ MountScreen
  /\ last' = "authBack"
  /\ alert' = NoAlert
  /\ UNCHANGED <<envVars, authVars, quotaVars, requests, sent, overlapped, successes>>

Emails == {"", "a@b"}
Passwords == {"", "pw"}

\* (variant: only the email is required)
handleSignIn_EmailOnly ==
  /\ CurrentView = "auth"
  /\ \E email \in Emails : \E password \in Passwords :
       /\ submitted' = [email |-> email, password |-> password]
       /\ IF email = ""
          THEN /\ alert' = [title |-> "Error", message |-> "fill in all fields"]
               /\ last' = "signInRejected"
               /\ UNCHANGED <<user, loading, signInTimer, homeView>>
          ELSE /\ loading' = TRUE
               /\ signInTimer' = email
               /\ last' = "signIn"
               /\ alert' = NoAlert
               /\ UNCHANGED <<user, homeView>>
  /\ UNCHANGED <<envVars, quotaVars, screenVars, appState, requests, sent,
                 overlapped, successes>>

\* AuthScreen.handleSignIn, and useAuth.signIn up to its setTimeout.
handleSignIn ==
  /\ CurrentView = "auth"
  /\ \E email \in Emails : \E password \in Passwords :
       /\ submitted' = [email |-> email, password |-> password]
       /\ IF email = "" \/ password = ""
          THEN /\ alert' = [title |-> "Error", message |-> "fill in all fields"]
               /\ last' = "signInRejected"
               /\ UNCHANGED <<user, loading, signInTimer, homeView>>
          ELSE /\ loading' = TRUE
               /\ signInTimer' = email
               /\ last' = "signIn"
               /\ alert' = NoAlert
               /\ UNCHANGED <<user, homeView>>
  /\ UNCHANGED <<envVars, quotaVars, screenVars, appState, requests, sent, overlapped,
                 successes>>

\* (variant: the timeout sets the user and leaves loading on)
SignInCompletes_KeepsLoading ==
  /\ signInTimer # NoUser
  /\ user' = signInTimer
  /\ loading' = TRUE
  /\ signInTimer' = NoUser
  /\ homeView' = "home"
  /\ UNCHANGED submitted
  /\ last' = "signInCompleted"
  /\ alert' = NoAlert
  /\ UNCHANGED <<envVars, quotaVars, screenVars, appState, requests, sent,
                 overlapped, successes>>

\* useAuth.signIn: the timeout fires.
SignInCompletes ==
  /\ signInTimer # NoUser
  /\ user' = signInTimer
  /\ loading' = FALSE
  /\ signInTimer' = NoUser
  /\ homeView' = "home"
  /\ UNCHANGED submitted
  /\ last' = "signInCompleted"
  /\ alert' = NoAlert
  /\ UNCHANGED <<envVars, quotaVars, screenVars, appState, requests, sent, overlapped,
                 successes>>

\* (variant: signing out starts the router over)
signOut_ResetsRouter ==
  /\ CurrentView = "home"
  /\ homeView = "home"
  /\ user' = NoUser
  /\ homeView' = "home"
  /\ appState' = "welcome"
  /\ last' = "signOut"
  /\ alert' = NoAlert
  /\ UNCHANGED <<envVars, loading, signInTimer, submitted, quotaVars,
                 screenVars, requests, sent, overlapped, successes>>

\* HomeScreen.handleSignOut confirmed: useAuth.signOut.
signOut ==
  /\ CurrentView = "home"
  /\ homeView = "home"
  /\ user' = NoUser
  /\ homeView' = "home"
  /\ last' = "signOut"
  /\ alert' = NoAlert
  /\ UNCHANGED <<envVars, loading, signInTimer, submitted, quotaVars, screenVars,
                 appState, requests, sent, overlapped, successes>>

\* HomeScreen: the Generate Image card.
HomeOpenGenerate ==
  /\ CurrentView = "home"
  /\ homeView = "home"
  /\ homeView' = "generate"
  /\ last' = "homeOpenGenerate"
  /\ alert' = NoAlert
  /\ UNCHANGED <<envVars, user, loading, signInTimer, submitted, quotaVars, screenVars,
                 appState, requests, sent, overlapped, successes>>

\* HomeScreen: the back arrow / Back to Home of its generate view.
HomeBack ==
  /\ CurrentView = "home"
  /\ homeView = "generate"
  /\ homeView' = "home"
  /\ last' = "homeBack"
  /\ alert' = NoAlert
  /\ UNCHANGED <<envVars, user, loading, signInTimer, submitted, quotaVars, screenVars,
                 appState, requests, sent, overlapped, successes>>

\* The app process ends and the app is launched again: the storage stays,
\* everything in memory starts over.
Relaunch ==
  /\ session < MaxSessions
  /\ session' = session + 1
  /\ usageCount' = 0
  /\ isLoading' = TRUE
  /\ user' = NoUser
  /\ loading' = FALSE
  /\ signInTimer' = NoUser
  /\ submitted' = NotSubmitted
  /\ homeView' = "home"
  /\ appState' = "welcome"
  /\ MountScreen
  /\ requests' = <<>>
  /\ alert' = NoAlert
  /\ incCalls' = 0
  /\ loaded' = 0
  /\ last' = "launch"
  /\ UNCHANGED <<hasLocalStorage, storedAtStart, stored, lastWritten,
                 lastWriteFailed, sent, overlapped, successes, sideVars>>

\* ------------------------------------------------------ ThemeProvider
\* What ThemeProvider's handlers leave alone.
appVars == <<hasLocalStorage, storedAtStart, session, variant, viewer,
             authVars, screenVars, quotaVars, appState, requests, alert,
             sent, overlapped, successes>>

ThemeModes == {"light", "dark"}

\* What can be under the key theme_mode at launch.
StoredThemes == {"null", "light", "dark"}

\* loadThemePreference: AsyncStorage.getItem reads the key, or rejects and
\* the catch logs.
LoadThemeReads ==
  /\ theme.load = "pending"
  /\ \E ok \in BOOLEAN :
       theme' = IF ok
                THEN [theme EXCEPT !.load = "read", !.read = theme.stored]
                ELSE [theme EXCEPT !.load = "done", !.failed = TRUE]
  /\ last' = "loadThemeReads"
  /\ UNCHANGED appVars

\* loadThemePreference after its await: the theme is set from what was read.
LoadThemeApplies ==
  /\ theme.load = "read"
  /\ theme' = [theme EXCEPT
                 !.load = "done",
                 !.currentTheme = IF theme.read = "dark" THEN "dark"
                                  ELSE "light",
                 !.isDarkMode = (theme.read = "dark"),
                 !.streak = 0]
  /\ last' = "loadThemeApplies"
  /\ UNCHANGED appVars

\* What the key will hold once the pending writes have landed.
StoredAhead ==
  IF theme.writes = <<>> THEN theme.stored
  ELSE theme.writes[Len(theme.writes)]

\* toggleTheme up to its await: the state is flipped, setItem is issued.
toggleTheme ==
  /\ theme.calls < MaxThemeCalls
  /\ LET newMode == IF theme.isDarkMode THEN "light" ELSE "dark"
     IN theme' = [theme EXCEPT
                    !.currentTheme = newMode,
                    !.isDarkMode = ~theme.isDarkMode,
                    !.writes = Append(theme.writes, newMode),
                    !.calls = theme.calls + 1,
                    !.streak = IF theme.streak = 2 THEN 1
                               ELSE theme.streak + 1,
                    !.base = IF theme.streak \in {0, 2}
                             THEN [isDarkMode |-> theme.isDarkMode,
                                   stored |-> StoredAhead]
                             ELSE theme.base]
  /\ last' = "toggleTheme"
  /\ UNCHANGED appVars

\* setTheme(mode) up to its await.
setTheme ==
  /\ theme.calls < MaxThemeCalls
  /\ \E mode \in ThemeModes :
       theme' = [theme EXCEPT
                   !.currentTheme = mode,
                   !.isDarkMode = (mode = "dark"),
                   !.writes = Append(theme.writes, mode),
                   !.calls = theme.calls + 1,
                   !.streak = 0]
  /\ last' = "setTheme"
  /\ UNCHANGED appVars

\* The oldest pending AsyncStorage.setItem lands, or rejects and the catch
\* logs.
ThemeWriteSettles ==
  /\ theme.writes # <<>>
  /\ \E ok \in BOOLEAN :
       theme' = IF ok
                THEN [theme EXCEPT !.stored = Head(theme.writes),
                                   !.writes = Tail(theme.writes)]
                ELSE [theme EXCEPT !.failed = TRUE,
                                   !.writes = Tail(theme.writes)]
  /\ last' = "themeWriteSettles"
  /\ UNCHANGED appVars

\* ------------------------------------------------------ PhotoViewerModal
\* What the gallery's and the viewer's handlers leave alone.
galleryFrame == <<hasLocalStorage, storedAtStart, session, variant, theme,
                  authVars, screenVars, quotaVars, appState, requests, alert,
                  sent, overlapped, successes>>

\* Math.round(offsetX / screenWidth): the nearest integer, halves upwards.
MathRound(offsetX) == (2 * offsetX + ScreenWidth) \div (2 * ScreenWidth)

\* The offsets a scroll event of the carousel can report: the content's
\* range and one screen of overscroll on either side.
ScrollOffsets(length) == (0 - ScreenWidth) .. (length * ScreenWidth)

\* openPhotoViewer(index) from a thumbnail: the modal mounts with
\* currentIndex = initialIndex and its carousel at offset 0.
openPhotoViewer ==
  /\ ~viewer.visible
  /\ \E index \in 0 .. viewer.length - 1 :
       viewer' = [viewer EXCEPT !.visible = TRUE, !.initialIndex = index,
                                !.currentIndex = index, !.offsetX = 0,
                                !.moved = FALSE]
  /\ last' = "openPhotoViewer"
  /\ UNCHANGED galleryFrame

\* closePhotoViewer: the modal unmounts.
closePhotoViewer ==
  /\ viewer.visible
  /\ viewer' = [ViewerClosed EXCEPT !.length = viewer.length]
  /\ last' = "closePhotoViewer"
  /\ UNCHANGED galleryFrame

goToNext_NoBound ==
  /\ viewer.visible
  /\ LET newIndex == viewer.currentIndex + 1
     IN viewer' = [viewer EXCEPT !.currentIndex = newIndex,
                                 !.offsetX = newIndex * ScreenWidth,
                                 !.moved = TRUE]
  /\ last' = "goToNext"
  /\ UNCHANGED galleryFrame

\* goToNext: one image on, and the carousel scrolled to it, unless the
\* current image is the last.
goToNext ==
  /\ viewer.visible
  /\ LET newIndex == viewer.currentIndex + 1
     IN viewer' = IF viewer.currentIndex < viewer.length - 1
                  THEN [viewer EXCEPT !.currentIndex = newIndex,
                                      !.offsetX = newIndex * ScreenWidth,
                                      !.moved = TRUE]
                  ELSE [viewer EXCEPT !.moved = FALSE]
  /\ last' = "goToNext"
  /\ UNCHANGED galleryFrame

\* goToPrevious: one image back, unless the current image is the first.
goToPrevious ==
  /\ viewer.visible
  /\ LET newIndex == viewer.currentIndex - 1
     IN viewer' = IF viewer.currentIndex > 0
                  THEN [viewer EXCEPT !.currentIndex = newIndex,
                                      !.offsetX = newIndex * ScreenWidth,
                                      !.moved = TRUE]
                  ELSE [viewer EXCEPT !.moved = FALSE]
  /\ last' = "goToPrevious"
  /\ UNCHANGED galleryFrame

\* handleScroll: the index is taken from the reported offset when it differs
\* from the current one and lies within the images.
handleScroll ==
  /\ viewer.visible
  /\ \E offsetX \in ScrollOffsets(viewer.length) :
       LET newIndex == MathRound(offsetX)
       IN viewer' = IF /\ newIndex # viewer.currentIndex
                       /\ newIndex >= 0
                       /\ newIndex < viewer.length
                    THEN [viewer EXCEPT !.currentIndex = newIndex,
                                        !.offsetX = offsetX, !.moved = TRUE]
                    ELSE [viewer EXCEPT !.offsetX = offsetX, !.moved = FALSE]
  /\ last' = "handleScroll"
  /\ UNCHANGED galleryFrame

\* ------------------------------------------------------ specifications
\* The unauthenticated flow as the user can drive it.
NextFlow ==
  \/ loadUsage
  \/ GetStarted
  \/ Back
  \/ SelectPrompt
  \/ PickReferenceImage
  \/ RemoveReferenceImage
  \/ ResetResult
  \/ TapGenerate
  \/ FetchResolves
  \/ FetchRejects
  \/ ErrorBodySettles
  \/ BodyRejects
  \/ GenerationSucceeds

SpecFlow == Init /\ [][NextFlow]_vars

\* A pending handleGenerate moves on: the network answers.
Completion ==
  \/ FetchResolves
  \/ FetchRejects
  \/ ErrorBodySettles
  \/ BodyRejects
  \/ GenerationSucceeds

\* The flow with its tab bar on a first launch with nothing stored, every
\* sent request answered in the end.
InitTabs ==
  /\ Init
  /\ hasLocalStorage
  /\ stored = NoItem

NextTabs ==
  \/ NextFlow
  \/ SetActiveTab

SpecTabs == InitTabs /\ [][NextTabs]_vars /\ WF_vars(Completion)

\* ThemeProvider from its mount, whatever the key holds.
InitTheme ==
  /\ InitFlow
  /\ hasLocalStorage
  /\ stored = NoItem
  /\ variant = "curated"
  /\ theme \in {ThemeAtMount(s) : s \in StoredThemes}
  /\ viewer = ViewerClosed

NextTheme ==
  \/ LoadThemeReads
  \/ LoadThemeApplies
  \/ toggleTheme
  \/ setTheme
  \/ ThemeWriteSettles

SpecTheme == InitTheme /\ [][NextTheme]_vars

\* The gallery with its images loaded, and the viewer over it.
InitViewer ==
  /\ InitFlow
  /\ hasLocalStorage
  /\ stored = NoItem
  /\ variant = "curated"
  /\ theme = ThemeIdle
  /\ viewer \in {[ViewerClosed EXCEPT !.length = n] : n \in 0 .. MaxImages}

NextViewer ==
  \/ openPhotoViewer
  \/ closePhotoViewer
  \/ goToNext
  \/ goToPrevious
  \/ handleScroll

SpecViewer == InitViewer /\ [][NextViewer]_vars

\* Every build of the app, driven as the user can drive it.
InitVariants ==
  /\ InitFlow
  /\ variant \in Variants
  /\ theme = ThemeIdle
  /\ viewer = ViewerClosed

SpecVariants == InitVariants /\ [][NextFlow]_vars

\* The whole client within one launch, with handleGenerate also callable as
\* a function.
Next ==
  \/ NextFlow
  \/ CallHandleGenerate
  \/ Signup
  \/ SignupBack
  \/ AuthBack
  \/ handleSignIn
  \/ SignInCompletes
  \/ HomeOpenGenerate
  \/ HomeBack
  \/ signOut

Spec == Init /\ [][Next]_vars

\* The unauthenticated flow over several launches of the app.
NextSessions ==
  \/ NextFlow
  \/ Relaunch

SpecSessions == Init /\ [][NextSessions]_vars

TypeOK ==
  /\ hasLocalStorage \in BOOLEAN
  /\ stored.has \in BOOLEAN
  /\ usageCount \in Int
  /\ appState \in {"welcome", "generate", "signup_prompt", "auth"}
  /\ Len(requests) <= MaxInFlight
  /\ sent \in 0..MaxSent


\* --------------------------------------------------------------- claims
\* The step is a call of handleGenerate.
HandleGenerateStep ==
  last' \in {"generateNoPrompt", "generateNoImage", "generateNoUses",
             "generateSent"}

\* The step is an attempt to generate: a tap on the control or a call.
GenerateAttemptStep == HandleGenerateStep \/ last' = "tapDisabled"

UsesLeft == usageCount # NaN /\ usageCount < FREE_LIMIT

\* C1: on a fresh device (no stored counter), however the user's actions in
\* the unauthenticated flow interleave with the completions of requests, the
\* number of generation requests that complete successfully never exceeds
\* FREE_LIMIT.
C1_CapNeverExceeded ==
  (storedAtStart = NoItem) => successes <= FREE_LIMIT

\* C2: usageCount after N incrementUsage calls equals the value loaded at
\* the session's start plus N, whatever was in flight or navigated meanwhile.
C2_EveryIncrementCounted ==
  (~isLoading /\ loaded # NaN) => usageCount = loaded + incCalls

\* C3: a step sends a generation request only if, in the state where
\* handleGenerate is called, a prompt is selected, a reference image is
\* present and uses are left; a call with no uses left sends nothing; a call
\* with the prompt or the reference image missing raises an alert and sends
\* nothing.
C3_RequestOnlyWhenValid ==
  [][/\ (sent' # sent) =>
          (selectedPromptId # NoPrompt /\ referenceImage # NoImage /\ UsesLeft)
     /\ (HandleGenerateStep /\ ~UsesLeft) => sent' = sent
     /\ (HandleGenerateStep /\
           (selectedPromptId = NoPrompt \/ referenceImage = NoImage)) =>
          (alert'.title = "Error" /\ sent' = sent)]_vars

\* C3 witness: after a request was sent, a call with the reference image
\* missing has raised the alert.
C3_Witness ==
  /\ last = "generateNoImage"
  /\ alert.title = "Error"
  /\ sent > 0

\* C4: on the generate screen with no uses left, every attempt to generate
\* moves the router to signup_prompt.
C4_AttemptRoutesToSignup ==
  [][(CurrentView = "generate" /\ ~UsesLeft /\ GenerateAttemptStep)
       => appState' = "signup_prompt"]_vars

\* C5: a generation request that fails (non-2xx status, transport error or
\* unreadable body) leaves usageCount, the persisted counter and the number
\* of incrementUsage calls unchanged.
C5_FailureLeavesQuota ==
  [][(last' = "generationFailed")
       => (usageCount' = usageCount /\ stored' = stored
           /\ incCalls' = incCalls)]_vars

\* C5 witness: a request has failed after an earlier one succeeded.
C5_Witness ==
  /\ last = "generationFailed"
  /\ alert.title = "Generation Failed"
  /\ usageCount = 1
  /\ incCalls = 1

\* C6: every successful generation response causes exactly one call of
\* incrementUsage, and incrementUsage is called in no other step: the call
\* comes with the completion of a request whose 2xx response was received.
C6_OneIncrementPerSuccess ==
  [][/\ (last' = "generationSucceeded") =>
          (successes' = successes + 1 /\ incCalls' = incCalls + 1)
     /\ (last' # "launch" /\ incCalls' # incCalls) =>
          /\ last' = "generationSucceeded"
          /\ incCalls' = incCalls + 1
          /\ \E i \in 1..Len(requests) :
               /\ requests[i].stage = "body"
               /\ requests[i].ok
               /\ requests' = RemoveAt(requests, i)]_vars

\* C6 witness: two requests have succeeded and incrementUsage ran twice.
C6_Witness ==
  /\ last = "generationSucceeded"
  /\ successes = 2
  /\ incCalls = 2

\* C7: within one app session usageCount never decreases from one step to
\* the next.
C7_UsageCountMonotonic ==
  [][(last' # "launch" /\ usageCount # NaN /\ usageCount' # NaN)
       => usageCount' >= usageCount]_vars

\* C8: for usageCount >= 0, hasUsesLeft() is true exactly when usageCount <
\* limit and remaining is max(0, limit - usageCount): never negative, and 0
\* with hasUsesLeft() false at usageCount = limit.
C8_QuotaFunctions ==
  (usageCount >= 0) =>
    /\ hasUsesLeft(usageCount) <=> (usageCount < FREE_LIMIT)
    /\ getRemainingUses(usageCount) =
         (IF FREE_LIMIT - usageCount > 0 THEN FREE_LIMIT - usageCount ELSE 0)
    /\ getRemainingUses(usageCount) >= 0
    /\ (usageCount = FREE_LIMIT) =>
         (~hasUsesLeft(usageCount) /\ getRemainingUses(usageCount) = 0)

\* C8 witness: the generate screen is shown with usageCount above the limit.
C8_Witness ==
  /\ CurrentView = "generate"
  /\ usageCount > FREE_LIMIT
  /\ getRemainingUses(usageCount) = 0

C10_LoadDefaultsToZero ==
  (last \in {"loadUsage", "loadUsageNoRead"}
     /\ (~stored.has \/ ParseInt(stored.str) = NaN))
    => usageCount = 0


\* C11: when the write inside incrementUsage fails, the error is swallowed
\* (the success path goes on to its alert), the in-memory usageCount still
\* advances by one from its current value, and only the persisted value
\* stays behind.
C11_WriteFailureStillCounts ==
  [][(last' = "generationSucceeded" /\ lastWriteFailed')
       => /\ usageCount' = JsAdd(usageCount, 1)
          /\ stored' = stored
          /\ alert'.title = "Success!"]_vars

\* C12: on a fresh device, after FREE_LIMIT generations that succeeded one
\* after another, remaining is 0 and hasUsesLeft() is false, and the next
\* generate attempt routes to signup_prompt without sending a request.
C12_ScenarioA ==
  [][(storedAtStart = NoItem /\ ~overlapped /\ successes = FREE_LIMIT)
       => /\ getRemainingUses(usageCount) = 0
          /\ ~hasUsesLeft(usageCount)
          /\ GenerateAttemptStep
               => (appState' = "signup_prompt" /\ sent' = sent)]_vars

\* C13: from signup_prompt the only next views are auth (Create Account)
\* and generate (Continue with free tier); Continue never leads to welcome.
C13_SignupPromptExits ==
  [][CurrentView = "signup_prompt"
       => /\ CurrentView' \in {"signup_prompt", "auth", "generate"}
          /\ last' = "signup" => CurrentView' = "auth"
          /\ last' = "signupBack" => CurrentView' = "generate"]_vars

C13_Witness ==
  /\ last = "signupBack"
  /\ CurrentView = "generate"

\* C14: when a sign-in submitted from auth completes the displayed screen
\* is home, and whenever user is set and no sign-in is loading the displayed
\* screen is home whatever appState holds.
C14_SignedInShowsHome ==
  /\ last = "signInCompleted" => CurrentView = "home"
  /\ (user # NoUser /\ ~loading) => CurrentView = "home"

C14_Witness ==
  /\ last = "signInCompleted"
  /\ user # NoUser
  /\ appState = "auth"
  /\ CurrentView = "home"

\* C15: the back action of generate gives welcome, that of signup_prompt
\* gives generate, and that of auth gives signup_prompt.
C15_BackTargets ==
  [][/\ last' = "back" => CurrentView' = "welcome"
     /\ last' = "signupBack" => CurrentView' = "generate"
     /\ last' = "authBack" => CurrentView' = "signup_prompt"]_vars

\* C16: from welcome the only next view is generate (Get Started); nothing
\* leads from welcome straight to signup_prompt, auth or home.
C16_WelcomeExits ==
  [][CurrentView = "welcome"
       => /\ CurrentView' \in {"welcome", "generate"}
          /\ user' = NoUser
          /\ last' = "getStarted" => CurrentView' = "generate"]_vars

C16_Witness ==
  /\ last = "getStarted"
  /\ appState = "generate"
  /\ CurrentView = "generate"

\* C17: the router starts in welcome with no user, and in every reachable
\* state the view tag is one of welcome, generate, signup_prompt, auth and
\* home: appState holds one of the first four, and what is displayed once
\* loading is over is one of the five.
ViewTags == {"welcome", "generate", "signup_prompt", "auth", "home"}

StepsToWelcome ==
  IF isLoading THEN 1
  ELSE IF loading THEN 4
  ELSE IF user # NoUser THEN (IF homeView = "home" THEN 3 ELSE 4)
  ELSE IF appState = "generate"
       THEN (IF generatedImage = NoImage THEN 1 ELSE 2)
  ELSE IF appState \in {"signup_prompt", "auth"} THEN 2
  ELSE 0

\* C18: the router has no terminal state: in every reachable state (home,
\* the sign-in loading state and generate showing a result included) some
\* user action or pending completion is enabled, and welcome can be reached
\* again: away from welcome some enabled step leads strictly closer to it.
C18_NoTerminalState ==
  /\ ENABLED Next
  /\ CurrentView = "welcome" <=> StepsToWelcome = 0
  /\ CurrentView # "welcome"
       => ENABLED (Next /\ StepsToWelcome' < StepsToWelcome)

C18_Witness ==
  /\ last = "signIn"
  /\ loading
  /\ CurrentView = "loading"
  /\ StepsToWelcome = 4

FailureMessage(r) ==
  IF r.detail THEN "detail"
  ELSE IF r.stage = "body" /\ ~r.ok THEN "HTTP status"
  ELSE "error.message"

\* C20: every failed generation raises exactly one alert, titled Generation
\* Failed, whose message is the server's detail when the error body has one
\* and a fallback otherwise; no request ends without success and without
\* that alert, and the alert is raised by nothing else.
C20_FailureAlert ==
  [][/\ last' = "generationFailed"
          => /\ alert'.title = "Generation Failed"
             /\ \E i \in 1..Len(requests) :
                  /\ requests' = RemoveAt(requests, i)
                  /\ alert'.message = FailureMessage(requests[i])
     /\ (Len(requests') < Len(requests) /\ last' # "generationSucceeded")
          => last' = "generationFailed"
     /\ alert'.title = "Generation Failed"
          => (last' = "generationFailed"
              /\ Len(requests') = Len(requests) - 1)]_vars

C20_Witness ==
  /\ last = "generationFailed"
  /\ alert = [title |-> "Generation Failed", message |-> "detail"]

\* C21: when the permission is denied, pickReferenceImage / takeReferencePhoto
\* raises the Permission Required alert and goes no further: no image comes
\* back from a picker, and referenceImage, the selected prompt, generating,
\* usageCount and the router state are unchanged; nothing else raises
\* that alert.
C21_PermissionDenied ==
  [][/\ last' = "pickDenied"
          => /\ alert'.title = "Permission Required"
             /\ referenceImage' = referenceImage
             /\ selectedPromptId' = selectedPromptId
             /\ generating' = generating
             /\ generatedImage' = generatedImage
             /\ usageCount' = usageCount
             /\ stored' = stored
             /\ appState' = appState
             /\ requests' = requests
     /\ alert'.title = "Permission Required" => last' = "pickDenied"]_vars

C21_Witness ==
  /\ last = "pickDenied"
  /\ alert.title = "Permission Required"
  /\ referenceImage = NoImage
  /\ CurrentView = "generate"

\* C22: in every build, Get Started on welcome leads to a generate screen
\* that renders: freeTier.hasUsesLeft is a function, so the screen shown
\* after the tap is generate and never the render error.
C22_GenerateRenders ==
  [][last' = "getStarted"
       => (HasUsesLeftCallable /\ CurrentView' = "generate")]_vars

\* C23: at most one generation request is in flight at any time: no
\* handleGenerate passes its check while the request of another is pending,
\* whatever the user does in between.
C23_OneInFlight ==
  /\ Len(requests) <= 1
  /\ ~overlapped

C25_SignupPromptByTap ==
  (/\ GenerateMounted
   /\ generatedImage = NoImage
   /\ selectedPromptId # NoPrompt
   /\ referenceImage # NoImage
   /\ ~generating
   /\ usageCount # NaN
   /\ usageCount >= FREE_LIMIT)
    => /\ ~GenerateDisabled
       /\ ENABLED (TapGenerate /\ appState' = "signup_prompt")

\* C26: user becomes non-null only when the timer of a sign-in submitted
\* with both fields non-empty fires; a submit with either field empty
\* raises an alert, does not call signIn (no loading, no timer) and leaves
\* user null and appState auth.
C26_SignInNeedsBothFields ==
  [][/\ last' \in {"signIn", "signInRejected"}
          => ((submitted'.email = "" \/ submitted'.password = "")
                <=> last' = "signInRejected")
     /\ last' = "signInRejected"
          => /\ alert'.title = "Error"
             /\ user' = NoUser
             /\ loading' = loading
             /\ signInTimer' = signInTimer
             /\ appState' = "auth"
             /\ CurrentView' = "auth"
     /\ (user = NoUser /\ user' # NoUser)
          => /\ last' = "signInCompleted"
             /\ submitted.email # ""
             /\ submitted.password # ""
             /\ user' = submitted.email]_vars

C26_Witness ==
  /\ last = "signInRejected"
  /\ submitted.email # ""
  /\ submitted.password = ""
  /\ user = NoUser
  /\ appState = "auth"

\* C29: signOut changes only user: appState, usageCount, the persisted
\* counter and everything else are left as they were, so the screen shown
\* after signing out from home is the one appState recorded when the sign-in
\* completed, auth, and not welcome.
C29_SignOutOnlyUser ==
  [][last' = "signOut"
       => /\ user # NoUser
          /\ user' = NoUser
          /\ UNCHANGED <<appState, usageCount, stored, isLoading, loading,
                         signInTimer, screenVars, requests>>
          /\ appState' = "auth"
          /\ CurrentView' = "auth"]_vars

C29_Witness ==
  /\ last = "signOut"
  /\ user = NoUser
  /\ CurrentView = "auth"
  /\ usageCount > 0

\* The mode a value under theme_mode stands for: loadThemePreference takes
\* anything but dark as light.
StoredMode(s) == IF s = "dark" THEN "dark" ELSE "light"

\* C27: whatever the interleaving of the mount-time load with toggleTheme
\* and setTheme, once every pending read and write has completed and none
\* has failed, the mode in memory is the one stored under theme_mode.
C27_ThemeMatchesStorage ==
  (theme.load = "done" /\ theme.writes = <<>> /\ ~theme.failed)
    => StoredMode(theme.stored) = (IF theme.isDarkMode THEN "dark" ELSE "light")

\* C28: in every reachable state of ThemeProvider isDarkMode is true exactly
\* when the current theme is the dark one, and after toggleTheme was applied
\* twice in a row, its writes landed and no storage operation failed, the
\* mode in memory and the stored mode are the ones it started from.
C28_ToggleTwiceRestores ==
  /\ theme.isDarkMode <=> theme.currentTheme = "dark"
  /\ (theme.streak = 2 /\ theme.writes = <<>> /\ ~theme.failed)
       => /\ theme.isDarkMode = theme.base.isDarkMode
          /\ StoredMode(theme.stored) = StoredMode(theme.base.stored)

\* C30: while the viewer is open over a gallery it was opened into with
\* 0 <= initialIndex < images.length, currentIndex stays within
\* 0..images.length-1 after any sequence of goToNext, goToPrevious and
\* handleScroll; goToNext at the last image and goToPrevious at the first
\* leave it unchanged, and a scroll offset that maps outside the range is
\* ignored.
C30_IndexInRange ==
  /\ [](viewer.visible => viewer.currentIndex \in 0 .. viewer.length - 1)
  /\ [][/\ (last' = "goToNext" /\ viewer.visible
              /\ viewer.currentIndex = viewer.length - 1)
             => viewer'.currentIndex = viewer.currentIndex
        /\ (last' = "goToPrevious" /\ viewer.visible
              /\ viewer.currentIndex = 0)
             => viewer'.currentIndex = viewer.currentIndex
        /\ (last' = "handleScroll" /\ viewer.visible
              /\ MathRound(viewer'.offsetX) \notin 0 .. viewer.length - 1)
             => viewer'.currentIndex = viewer.currentIndex]_vars

C30_Witness ==
  /\ viewer.visible
  /\ viewer.length > 1
  /\ last = "handleScroll"
  /\ ~viewer.moved
  /\ MathRound(viewer.offsetX) >= viewer.length
  /\ viewer.currentIndex # viewer.initialIndex

====
